---- MODULE Spec2Model ----
(***************************************************************************)
(* aws-epubify: the conversion pipeline of src/app/api/convert/route.ts    *)
(* (link extractor, content extractor, orchestrator) and the in-memory     *)
(* task registry of lib/tasks.                                             *)
(*                                                                         *)
(* Strings that the code inspects are sequences of atomic tokens, so that  *)
(* String.includes, the extension regex and exact string equality are      *)
(* computed and not assumed.  A URL string is a record of its raw          *)
(* components; new URL() normalises it (lower-cases the host, gives an     *)
(* empty path the value "/") and toString() writes the normal form back.   *)
(***************************************************************************)
EXTENDS Integers, Sequences, FiniteSets, TLC

(***************************************************************************)
(* Bounds of the model                                                     *)
(***************************************************************************)
MaxNodes == 3        \* nodes of an exhaustively enumerated seed page
MaxInside == 3       \* anchors inside the navigation region of a built page
Overflow == 3        \* anchors of the long page beyond the page cap

(***************************************************************************)
(* Program constants                                                       *)
(***************************************************************************)
MaxPages == 100      \* links.slice(0, 100)
MinContentLength == 100

(***************************************************************************)
(* String helpers                                                          *)
(***************************************************************************)
Min(a, b) == IF a < b THEN a ELSE b

\* toLowerCase on one token (host normalisation, the /i flag of the regex)
Lower(t) ==
  CASE t = "PDF" -> "pdf"
    [] t = "DOCS" -> "docs"
    [] OTHER -> t

LowerSeq(s) == [k \in 1..Len(s) |-> Lower(s[k])]

\* String.prototype.includes: t occurs in s as a contiguous run
Includes(s, t) ==
  \E k \in 0..(Len(s) - Len(t)) : SubSeq(s, k + 1, k + Len(t)) = t

\* regex anchored at the end of the string
EndsWith(s, t) ==
  /\ Len(s) >= Len(t)
  /\ SubSeq(s, Len(s) - Len(t) + 1, Len(s)) = t

\* a URL string, by its raw components ("" / <<>> when a component is absent)
Str(scheme, host, path, search, hash) ==
  [scheme |-> scheme, host |-> host, path |-> path, search |-> search, hash |-> hash]

EmptyStr == Str("", <<>>, <<>>, <<>>, <<>>)

\* new URL(u): <<>> when the constructor throws, else <<parsed>>
ParseURL(u) ==
  IF u.scheme = "" \/ (u.scheme = "https" /\ u.host = <<>>)
    THEN <<>>
    ELSE << [protocol |-> u.scheme,
             hostname |-> LowerSeq(u.host),
             pathname |-> IF u.path = <<>> THEN <<"/">> ELSE u.path,
             search   |-> u.search,
             hash     |-> u.hash] >>

\* the directory part of a path: everything up to and including the last "/"
RECURSIVE DirOf(_)
DirOf(p) ==
  IF p = <<>> THEN <<"/">>
  ELSE IF p[Len(p)] = "/" THEN p
  ELSE DirOf(SubSeq(p, 1, Len(p) - 1))

\* new URL(href, base): <<>> when the constructor throws, else <<parsed>>
ResolveURL(href, base) ==
  IF href.scheme # "" THEN ParseURL(href)
  ELSE IF ParseURL(base) = <<>> THEN <<>>
  ELSE LET b == ParseURL(base)[1] IN
    IF href.host # <<>> THEN
      << [b EXCEPT !.hostname = LowerSeq(href.host),
                   !.pathname = IF href.path = <<>> THEN <<"/">> ELSE href.path,
                   !.search = href.search, !.hash = href.hash] >>
    ELSE IF href.path = <<>> THEN
      << [b EXCEPT !.search = IF href.search # <<>> THEN href.search ELSE b.search,
                   !.hash = href.hash] >>
    ELSE IF href.path[1] = "/" THEN
      << [b EXCEPT !.pathname = href.path, !.search = href.search, !.hash = href.hash] >>
    ELSE
      << [b EXCEPT !.pathname = DirOf(b.pathname) \o href.path,
                   !.search = href.search, !.hash = href.hash] >>

\* URL.prototype.toString()
URLToString(p) == Str(p.protocol, p.hostname, p.pathname, p.search, p.hash)

(***************************************************************************)
(* Validity predicate (isValidAwsDocumentationLink)                        *)
(***************************************************************************)
AwsHost == <<"aws", ".", "amazon", ".", "com">>
DocsAwsHost == <<"docs", ".", "aws", ".", "amazon", ".", "com">>
WaAwsHost == <<"wa", ".", "aws", ".", "amazon", ".", "com">>

ExcludedExtensions == {"pdf", "zip", "jpg", "jpeg", "png", "gif", "svg", "css", "js"}

\* /\.(pdf|zip|tar\.gz|jpg|jpeg|png|gif|svg|css|js)$/i
MatchesExcludedExtension(pathname) ==
  LET p == LowerSeq(pathname) IN
    \/ \E e \in ExcludedExtensions : EndsWith(p, <<".", e>>)
    \/ EndsWith(p, <<".", "tar", ".", "gz">>)

IsValidAwsDocumentationLink(url) ==
  IF ParseURL(url) = <<>> THEN FALSE
  ELSE LET parsedUrl == ParseURL(url)[1] IN
    IF /\ ~Includes(parsedUrl.hostname, AwsHost)
       /\ ~Includes(parsedUrl.hostname, DocsAwsHost)
       /\ ~Includes(parsedUrl.hostname, WaAwsHost)
      THEN FALSE
    ELSE IF MatchesExcludedExtension(parsedUrl.pathname) THEN FALSE
    ELSE IF /\ parsedUrl.hash # <<>>
            /\ parsedUrl.pathname = ParseURL(url)[1].pathname
            /\ parsedUrl.search = <<>>
      THEN FALSE
    ELSE IF /\ Includes(parsedUrl.pathname, <<"/", "api", "/">>)
            /\ ~Includes(parsedUrl.pathname, <<"/", "latest", "/">>)
      THEN FALSE
    ELSE TRUE

(***************************************************************************)
(* The parsed seed page: its elements in document order, each with the     *)
(* index of its parent (0 = the root), the TOC selectors it matches and,   *)
(* for an anchor, its href attribute.                                      *)
(***************************************************************************)
TocSelectors ==
  << "[data-testid=toc]", ".toc", "#toc", "[id*=table-of-contents]",
     "[class*=table-of-contents]", "[data-testid=nav-tree]", ".nav-tree",
     "[role=navigation]", ".awsui-side-navigation", ".awsui-navigation",
     "#sidebar", ".sidebar", ".navigation", ".nav", ".menu" >>

Anchor(href, parent) ==
  [tag |-> "a", marks |-> {}, hasHref |-> TRUE, href |-> href, parent |-> parent]
Element(tag, marks, parent) ==
  [tag |-> tag, marks |-> marks, hasHref |-> FALSE, href |-> EmptyStr, parent |-> parent]

\* el is the root (0) or a proper ancestor of node k
RECURSIVE IsInside(_, _, _)
IsInside(page, k, el) ==
  IF el = 0 THEN TRUE
  ELSE IF page[k].parent = 0 THEN FALSE
  ELSE IF page[k].parent = el THEN TRUE
  ELSE IsInside(page, page[k].parent, el)

\* root.querySelector(selector): the first match in document order, 0 if none
QuerySelector(page, selector) ==
  IF \E k \in 1..Len(page) : selector \in page[k].marks
    THEN CHOOSE k \in 1..Len(page) :
           /\ selector \in page[k].marks
           /\ \A m \in 1..(k - 1) : selector \notin page[m].marks
    ELSE 0

\* el.querySelectorAll('a[href]'): the anchors below el, in document order
QuerySelectorAllAnchors(page, el) ==
  SelectSeq([k \in 1..Len(page) |-> k],
            LAMBDA k : page[k].tag = "a" /\ page[k].hasHref /\ IsInside(page, k, el))

\* one pass of the loop body over anchor k: what it pushes, <<>> when the
\* href is empty, does not resolve or is not a valid link
AnchorLink(page, k, baseUrl) ==
  LET href == page[k].href IN
    IF href = EmptyStr THEN <<>>
    ELSE IF ResolveURL(href, baseUrl) = <<>> THEN <<>>
    ELSE LET absoluteUrl == URLToString(ResolveURL(href, baseUrl)[1]) IN
      IF IsValidAwsDocumentationLink(absoluteUrl) THEN << absoluteUrl >> ELSE <<>>

\* the positions 1..n in order
Positions(n) == [p \in 1..n |-> p]

\* extractLinksFromElement: links, then what the passes over linkElements
\* push, in order
ExtractLinksFrom(page, linkElements, baseUrl, links) ==
  LET pushing == SelectSeq(linkElements, LAMBDA k : AnchorLink(page, k, baseUrl) # <<>>) IN
    links \o [p \in 1..Len(pushing) |-> AnchorLink(page, pushing[p], baseUrl)[1]]

ExtractLinksFromElement(page, element, baseUrl) ==
  ExtractLinksFrom(page, QuerySelectorAllAnchors(page, element), baseUrl, <<>>)

\* for (const link of tocLinks) { if (!seen.has(link) && isValid(link)) ... }:
\* a link is added at its first position, unless seen held it before the loop
AddTocLinks(acc, tocLinks) ==
  LET added == SelectSeq(Positions(Len(tocLinks)),
                         LAMBDA p : /\ tocLinks[p] \notin acc.seen
                                    /\ \A q \in 1..(p - 1) : tocLinks[q] # tocLinks[p]
                                    /\ IsValidAwsDocumentationLink(tocLinks[p])) IN
    [links |-> acc.links \o [i \in 1..Len(added) |-> tocLinks[added[i]]],
     seen |-> acc.seen \cup { tocLinks[added[i]] : i \in 1..Len(added) }]

\* for (const selector of tocSelectors) { ...; break on the first match }
RECURSIVE FirstTocElement(_, _)
FirstTocElement(page, s) ==
  IF s > Len(TocSelectors) THEN 0
  ELSE IF QuerySelector(page, TocSelectors[s]) # 0 THEN QuerySelector(page, TocSelectors[s])
  ELSE FirstTocElement(page, s + 1)

\* the scan of every a[href] of the page: an anchor adds its absolute URL
\* when that is valid and seen does not hold it, so at its first position
\* and unless seen held it before the scan
ScanAllAnchors(acc, page, linkElements, url) ==
  LET link(p) == AnchorLink(page, linkElements[p], url)
      added == SelectSeq(Positions(Len(linkElements)),
                         LAMBDA p : /\ link(p) # <<>>
                                    /\ link(p)[1] \notin acc.seen
                                    /\ \A q \in 1..(p - 1) : link(q) # link(p)) IN
    [links |-> acc.links \o [i \in 1..Len(added) |-> link(added[i])[1]],
     seen |-> acc.seen \cup { link(added[i])[1] : i \in 1..Len(added) }]

\* no cut at all
SliceEndUncapped(links) == Len(links)

\* the position at which the links are cut
SliceEnd(links) == Min(MaxPages, Len(links))

\* a start from the empty list, the seed left to the anchors of the page
SeedFirstMissing(url) == [links |-> <<>>, seen |-> {}]

\* the seed is pushed first (seen is empty, so the test always passes)
SeedFirst(url) == [links |-> <<url>>, seen |-> {url}]

\* the TOC pass is followed by the scan when links.length === 1
NeedsFallback(acc) == Len(acc.links) = 1

\* extractAwsDocumentationLinks, from the parsed page on
LinksFromDocument(url, page) ==
  LET start == SeedFirst(url)
      tocElement == FirstTocElement(page, 1)
      afterToc == IF tocElement # 0
                    THEN AddTocLinks(start, ExtractLinksFromElement(page, tocElement, url))
                    ELSE start
      final == IF NeedsFallback(afterToc)
                 THEN ScanAllAnchors(afterToc, page, QuerySelectorAllAnchors(page, 0), url)
                 ELSE afterToc
  IN SubSeq(final.links, 1, SliceEnd(final.links))

(***************************************************************************)
(* fetch: a response, or a rejection (network failure, malformed URL)      *)
(***************************************************************************)
HtmlType == <<"text", "/", "html">>
XmlType == <<"application", "/", "rss", "+", "xml">>
XhtmlType == <<"application", "/", "x", "html", "+", "xml">>

Response(status, contentType, body) ==
  [rejected |-> FALSE, status |-> status, contentType |-> contentType, body |-> body]
Rejection == [rejected |-> TRUE, status |-> 0, contentType |-> <<>>, body |-> <<>>]
NoResponse == [rejected |-> FALSE, status |-> 0, contentType |-> <<>>, body |-> <<>>]

\* response.ok
ResponseOk(r) == r.status >= 200 /\ r.status <= 299

\* contentType.includes('xml') && !contentType.includes('html')
IsXmlNotHtml(contentType) ==
  Includes(contentType, <<"xml">>) /\ ~Includes(contentType, <<"html">>)

\* an Error value: its message is a fixed text, a URL and a number
Error(text, url, n) == [isError |-> TRUE, text |-> text, url |-> url, n |-> n]
NoError == [isError |-> FALSE, text |-> "", url |-> EmptyStr, n |-> 0]
FetchFailed == Error("fetch failed", EmptyStr, 0)
HttpError(url, status) == Error("Failed to fetch", url, status)

\* extractAwsDocumentationLinks(url) given what fetch(url) produced
ExtractAwsDocumentationLinks(url, r) ==
  IF ParseURL(url) = <<>> \/ r.rejected
    THEN [threw |-> TRUE, error |-> FetchFailed, links |-> <<>>]
  ELSE IF ~ResponseOk(r)
    THEN [threw |-> TRUE, error |-> HttpError(url, r.status), links |-> <<>>]
  ELSE [threw |-> FALSE, error |-> NoError, links |-> LinksFromDocument(url, r.body)]

(***************************************************************************)
(* Inputs: URL strings, hrefs and seed pages                               *)
(***************************************************************************)
Docs(path) == Str("https", DocsAwsHost, path, <<>>, <<>>)

SeedGuide == Docs(<<"/", "guide", "/">>)                       \* https://docs.aws.amazon.com/guide/
SeedBare == Docs(<<>>)                                         \* https://docs.aws.amazon.com
SeedOther == Str("https", <<"docs", ".", "example", ".", "com">>,
                 <<"/", "guide", "/">>, <<>>, <<>>)            \* https://docs.example.com/guide/
SeedFile == Str("file", <<>>, <<"/", "guide">>, <<>>, <<>>)    \* file:///guide
SeedMalformed == Str("", <<>>, <<"guide">>, <<>>, <<>>)        \* guide

PageA == Docs(<<"/", "guide", "/", "a", ".", "html">>)
PageB == Docs(<<"/", "guide", "/", "b", ".", "html">>)
PageN(n) == Docs(<<"/", "guide", "/", ToString(n)>>)

HrefA == PageA
HrefUpperA == Str("https", <<"DOCS", ".", "aws", ".", "amazon", ".", "com">>,
                  <<"/", "guide", "/", "a", ".", "html">>, <<>>, <<>>)
HrefRelB == Str("", <<>>, <<"b", ".", "html">>, <<>>, <<>>)    \* b.html
HrefPdf == Docs(<<"/", "guide", "/", "c", ".", "PDF">>)
HrefExternal == Str("https", <<"example", ".", "org">>, <<"/", "x">>, <<>>, <<>>)
HrefSelf == Str("", <<>>, <<"/", "guide", "/">>, <<>>, <<>>)   \* /guide/
HrefFragment == Str("", <<>>, <<>>, <<>>, <<"top">>)           \* #top
HrefApi == Docs(<<"/", "api", "/", "x">>)
HrefBad == Str("https", <<>>, <<>>, <<>>, <<>>)                \* https://

SeedUrls == {SeedGuide, SeedBare, SeedOther}

TreeHrefs == {HrefA, HrefUpperA, HrefSelf, HrefFragment, HrefApi, EmptyStr}
TreeMarks == {{".sidebar"}, {".toc", ".menu"}}
InsideHrefs == {HrefA, HrefRelB, HrefPdf, HrefExternal, HrefSelf, HrefBad}
BeforeNav == {<<>>, << PageN(1) >>}
AfterNav == {<<>>, << HrefA >>, << PageN(1) >>}

\* the last element of a page and its ancestors: where the next element can hang
RECURSIVE OpenElements(_, _)
OpenElements(page, k) ==
  IF k = 0 THEN {0}
  ELSE (IF page[k].tag = "a" THEN {} ELSE {k}) \cup OpenElements(page, page[k].parent)

\* the elements a page of n elements can end with
TreeNodes(n) ==
  { Anchor(h, par) : h \in TreeHrefs, par \in 0..(n - 1) }
    \cup { Element("div", m, par) : m \in TreeMarks, par \in 0..(n - 1) }
    \cup { Element("a", {}, par) : par \in 0..(n - 1) }

\* every page of exactly n elements, in document order
RECURSIVE TreePages(_)
TreePages(n) ==
  IF n = 0 THEN {<<>>}
  ELSE { Append(pn[1], pn[2]) :
           pn \in { qn \in TreePages(n - 1) \X TreeNodes(n) :
                      qn[2].parent \in OpenElements(qn[1], n - 1) } }

\* every sequence over S of length n
RECURSIVE SeqsOf(_, _)
SeqsOf(S, n) ==
  IF n = 0 THEN {<<>>}
  ELSE { Append(q, x) : q \in SeqsOf(S, n - 1), x \in S }

\* anchors before, a <nav class="sidebar"> holding anchors, anchors after
NavPage(before, inside, after) ==
  [k \in 1..Len(before) |-> Anchor(before[k], 0)]
    \o << Element("nav", {".sidebar"}, 0) >>
    \o [k \in 1..Len(inside) |-> Anchor(inside[k], Len(before) + 1)]
    \o [k \in 1..Len(after) |-> Anchor(after[k], 0)]

NavPages(maxInside) ==
  { NavPage(before, inside, after) :
      before \in BeforeNav,
      inside \in UNION { SeqsOf(InsideHrefs, n) : n \in 1..maxInside },
      after \in AfterNav }

\* a page with more distinct links than the cap, the first one twice
LongAnchors(parent, overflow) ==
  << Anchor(PageN(1), parent) >>
    \o [k \in 1..(MaxPages + overflow) |-> Anchor(PageN(k), parent)]
LongPages(overflow) ==
  { LongAnchors(0, overflow), << Element("div", {".toc"}, 0) >> \o LongAnchors(1, overflow) }

SeedPages(maxNodes, maxInside, overflow) ==
  UNION { TreePages(n) : n \in 0..maxNodes } \cup NavPages(maxInside) \cup LongPages(overflow)

\* the inputs of the link extractor: every seed with every page, and the
\* failures of the fetch
LinkInputs(maxNodes, maxInside, overflow) ==
  { [url |-> u, response |-> Response(200, HtmlType, page)] :
      u \in SeedUrls, page \in SeedPages(maxNodes, maxInside, overflow) }
    \cup { [url |-> u, response |-> r] :
             u \in SeedUrls \cup {SeedMalformed},
             r \in { Response(200, XmlType, NavPage(<<>>, <<HrefA>>, <<>>)),
                     Response(404, HtmlType, <<>>), Rejection } }

(***************************************************************************)
(* Content extractor (processPageWithReadability)                          *)
(***************************************************************************)
\* what Readability and the DOM give for one fetched page: the article (or
\* none), the text of <title> and of the first <h1>; a content string is
\* `len` characters surrounded by `pad` characters of white space
Content(len, pad) == [len |-> len, pad |-> pad]
Article(title, content, excerpt) == [title |-> title, content |-> content, excerpt |-> excerpt]
Document(name, article, docTitle, h1) ==
  [name |-> name, article |-> article, docTitle |-> docTitle, h1 |-> h1]

\* article.content.trim().length and article.content.length
TrimmedLength(content) == content.len
RawLength(content) == content.len + content.pad

\* String.prototype.trim on a text whose white space is the token " "
RECURSIVE TrimStart(_)
TrimStart(s) == IF s # <<>> /\ Head(s) = " " THEN TrimStart(Tail(s)) ELSE s
RECURSIVE TrimEnd(_)
TrimEnd(s) ==
  IF s # <<>> /\ s[Len(s)] = " " THEN TrimEnd(SubSeq(s, 1, Len(s) - 1)) ELSE s
Trim(s) == TrimEnd(TrimStart(s))

UntitledPage == <<"Untitled", " ", "Page">>

\* a chain that prefers the <title> of the page to the title of the article
ExtractTitleDocumentFirst(doc) ==
  IF Trim(doc.docTitle) # <<>> THEN Trim(doc.docTitle)
  ELSE IF doc.article[1].title # <<>> THEN doc.article[1].title
  ELSE IF Trim(doc.h1) # <<>> THEN Trim(doc.h1)
  ELSE UntitledPage

\* article.title || <title>.textContent.trim() || <h1>.textContent.trim()
\* || 'Untitled Page'; docTitle and h1 are <<>> when the element is missing
ExtractTitle(doc) ==
  IF doc.article[1].title # <<>> THEN doc.article[1].title
  ELSE IF Trim(doc.docTitle) # <<>> THEN Trim(doc.docTitle)
  ELSE IF Trim(doc.h1) # <<>> THEN Trim(doc.h1)
  ELSE UntitledPage

\* the threshold applied to the length before trim()
TooShortUntrimmed(content) == RawLength(content) < MinContentLength

\* cleanedContent.length < 100
TooShort(content) == TrimmedLength(content) < MinContentLength

\* the part of processPageWithReadability after response.text(): <<>> is null
ArticleFromDocument(url, doc) ==
  IF doc.article = <<>> THEN <<>>
  ELSE IF RawLength(doc.article[1].content) = 0 THEN <<>>
  ELSE IF TrimmedLength(doc.article[1].content) = 0 \/ TooShort(doc.article[1].content) THEN <<>>
  ELSE << [title |-> ExtractTitle(doc),
           content |-> doc.name,
           url |-> url,
           cleanedContent |-> TrimmedLength(doc.article[1].content),
           excerpt |-> doc.article[1].excerpt] >>

\* the outcome of the call: the value it resolves with, or that it threw
Returned(value) == [threw |-> FALSE, value |-> value]
Thrown == [threw |-> TRUE, value |-> <<>>]

\* a catch block that throws the error again
PageCatchRethrows == Thrown

\* the catch block of processPageWithReadability: warn and return null
PageCatch == Returned(<<>>)

\* the same with the content type only logged, as for the seed page
PageAfterFetchWarnsOnly(url, r) ==
  IF r.rejected THEN << PageCatch >>
  ELSE IF ~ResponseOk(r) THEN << PageCatch >>
  ELSE <<>>

\* the part of processPageWithReadability up to response.text():
\* <<>> while the body is awaited, else <<outcome>>
PageAfterFetch(url, r) ==
  IF r.rejected THEN << PageCatch >>
  ELSE IF ~ResponseOk(r) THEN << PageCatch >>
  ELSE IF IsXmlNotHtml(r.contentType) THEN << Returned(<<>>) >>
  ELSE <<>>

\* the part after response.text() resolved (bodyRead) or rejected
PageAfterText(url, r, bodyRead) ==
  IF ~bodyRead THEN PageCatch ELSE Returned(ArticleFromDocument(url, r.body))

\* processPageWithReadability(url), given what fetch and text() produced
ProcessPageWithReadability(url, r, bodyRead) ==
  IF PageAfterFetch(url, r) # <<>> THEN PageAfterFetch(url, r)[1]
  ELSE PageAfterText(url, r, bodyRead)

(***************************************************************************)
(* Task registry and job records                                           *)
(***************************************************************************)
RECURSIVE GCD(_, _)
GCD(a, b) == IF b = 0 THEN a ELSE GCD(b, a % b)

\* a progress value: the number n/d in lowest terms
Frac(n, d) == [n |-> n \div GCD(n, d), d |-> d \div GCD(n, d)]
Whole(n) == Frac(n, 1)
Leq(p, q) == p.n * q.d <= q.n * p.d

Msg(text, a, b, cause) == [text |-> text, a |-> a, b |-> b, cause |-> cause]
Plain(text) == Msg(text, 0, 0, NoError)

DefaultTitle == <<"AWS", " ", "Documentation">>

\* the record POST stores
NewTask(task_id, url, title) ==
  [task_id |-> task_id, url |-> url,
   title |-> IF title # <<>> THEN title ELSE DefaultTitle,
   status |-> "pending", progress |-> Whole(0), message |-> Plain("Conversion queued"),
   download_url |-> <<>>, epubBuffer |-> <<>>]

\* the registry as the conversion sees it: the map, and per task id the
\* status and progress of every record written so far, in order
Store(map, log) == [map |-> map, log |-> log]

\* tasks.set(id, task)
MapSet(t, id, task) ==
  Store([x \in DOMAIN t.map \cup {id} |-> IF x = id THEN task ELSE t.map[x]],
        [t.log EXCEPT ![id] = Append(@, [status |-> task.status, progress |-> task.progress])])

\* an updateStatus that writes to the record created last, not to its own
UpdateStatusOfLatest(t, taskId, status, progress, message) ==
  LET latest == IF "t2" \in DOMAIN t.map THEN "t2" ELSE taskId IN
    IF latest \in DOMAIN t.map
      THEN MapSet(t, latest, [t.map[latest] EXCEPT !.status = status, !.progress = progress,
                                              !.message = message])
      ELSE t

\* updateStatus
UpdateStatus(t, taskId, status, progress, message) ==
  IF taskId \in DOMAIN t.map
    THEN MapSet(t, taskId, [t.map[taskId] EXCEPT !.status = status, !.progress = progress,
                                            !.message = message])
    ELSE t

\* error instanceof Error ? error.message : 'Unknown error'
ErrorText(error) == IF error.isError THEN error ELSE Error("Unknown error", EmptyStr, 0)

ConversionFailed(error) == Msg("Conversion failed: ", 0, 0, ErrorText(error))

(***************************************************************************)
(* EPUB packager (createEpub, escapeXml).  Free text is a sequence of       *)
(* characters; a run of ordinary characters may stand as one element.      *)
(***************************************************************************)
Metacharacters == {"<", ">", "&", "'", "\""}

\* a callback that leaves the ampersand as it is
EscapeCharKeepsAmpersand(c) ==
  CASE c = "<" -> <<"&", "l", "t", ";">>
    [] c = ">" -> <<"&", "g", "t", ";">>
    [] c = "'" -> <<"&", "a", "p", "o", "s", ";">>
    [] c = "\"" -> <<"&", "q", "u", "o", "t", ";">>
    [] OTHER -> << c >>

\* the replace callback of escapeXml, for one character
EscapeChar(c) ==
  CASE c = "<" -> <<"&", "l", "t", ";">>
    [] c = ">" -> <<"&", "g", "t", ";">>
    [] c = "&" -> <<"&", "a", "m", "p", ";">>
    [] c = "'" -> <<"&", "a", "p", "o", "s", ";">>
    [] c = "\"" -> <<"&", "q", "u", "o", "t", ";">>
    [] OTHER -> << c >>

\* unsafe.replace(/[<>&'"]/g, callback): one pass, left to right
RECURSIVE EscapeXml(_)
EscapeXml(unsafe) ==
  IF unsafe = <<>> THEN <<>>
  ELSE EscapeChar(Head(unsafe)) \o EscapeXml(Tail(unsafe))

\* the characters of a URL string
UrlText(u) ==
  (IF u.scheme # "" THEN << u.scheme, ":", "/", "/" >> ELSE <<>>)
    \o u.host \o u.path
    \o (IF u.search # <<>> THEN << "?" >> \o u.search ELSE <<>>)
    \o (IF u.hash # <<>> THEN << "#" >> \o u.hash ELSE <<>>)

\* `chapter${i}` and `chapter${i}.xhtml`, i counted from 0
ChapterId(i) == << "chapter", ToString(i) >>
ChapterHref(i) == << "chapter", ToString(i), ".xhtml" >>

ManifestItem(id, href, mediaType) == [id |-> id, href |-> href, mediaType |-> mediaType]

Manifest(chapters) ==
  << ManifestItem(<<"toc">>, <<"toc.xhtml">>, "application/xhtml+xml"),
     ManifestItem(<<"css">>, <<"styles.css">>, "text/css") >>
    \o [k \in 1..Len(chapters) |->
          ManifestItem(ChapterId(k - 1), ChapterHref(k - 1), "application/xhtml+xml")]

\* a spine that lists the navigation document after the chapters
SpineTocLast(chapters) ==
  [k \in 1..Len(chapters) |-> ChapterId(k - 1)] \o << <<"toc">> >>

\* <itemref idref="toc"/> and one itemref per chapter
Spine(chapters) ==
  << <<"toc">> >> \o [k \in 1..Len(chapters) |-> ChapterId(k - 1)]

\* content.opf (the identifier and the date are clock readings)
ContentOpf(title, chapters) ==
  [title |-> EscapeXml(title), manifest |-> Manifest(chapters), spine |-> Spine(chapters)]

\* toc.xhtml: one <li><a href=...>title</a></li> per chapter
TocContent(chapters) ==
  [k \in 1..Len(chapters) |->
     [href |-> ChapterHref(k - 1), text |-> EscapeXml(chapters[k].title)]]

\* chapter${i}.xhtml: <title>, <h1>, the cleaned content, the source block
ChapterContent(chapter) ==
  [title |-> EscapeXml(chapter.title),
   h1 |-> EscapeXml(chapter.title),
   body |-> chapter.cleanedContent,
   sourceHref |-> UrlText(chapter.url),
   sourceText |-> UrlText(chapter.url)]

File(name, content) == [name |-> name, content |-> content]

\* createEpub: the files of the archive, in the order of the zip.file calls
CreateEpub(title, chapters) ==
  << File(<<"mimetype">>, "application/epub+zip"),
     File(<<"META-INF/container.xml">>, "OEBPS/content.opf"),
     File(<<"OEBPS/styles.css">>, "css"),
     File(<<"OEBPS/content.opf">>, ContentOpf(title, chapters)),
     File(<<"OEBPS/toc.xhtml">>, TocContent(chapters)) >>
    \o [k \in 1..Len(chapters) |->
          File(<<"OEBPS/">> \o ChapterHref(k - 1), ChapterContent(chapters[k]))]

(***************************************************************************)
(* State                                                                   *)
(***************************************************************************)
VARIABLES
  tasks,     \* the registry: a map from task id to TaskInfo
  job,       \* per task id, the locals of its convertToEpub call and its promise
  writes,    \* per task id, the status and progress of each write to its record
  fetched,   \* per task id, the content-page URLs fetched so far, in order
  reply,     \* the HTTP response this step sent, NoReply if it sent none
  arg,       \* the input of the function under check (function specifications)
  res        \* its result, <<>> before it ran

vars == <<tasks, writes, job, fetched, reply, arg, res>>

TaskIds == {"t1", "t2"}

\* results: what each call of processPageWithReadability settled with;
\* seedResponse: what the fetch of the seed page settled with
NoJob ==
  [pc |-> "none", url |-> EmptyStr, title |-> <<>>, links |-> <<>>, i |-> 0,
   chapters |-> <<>>, seedResponse |-> NoResponse, response |-> NoResponse,
   results |-> <<>>, error |-> NoError, promise |-> "none"]

\* a response: the route that sent it, its status code, the task id of the
\* request (of the new task for POST), the error detail and the payload
Reply(op, code, task_id, detail, body) ==
  [op |-> op, code |-> code, task_id |-> task_id, detail |-> detail, body |-> body]
NoReply == Reply("", 0, "", "", <<>>)

\* the registry, the locals of one conversion and its fetch log, threaded
\* through the synchronous stretches of convertToEpub
Ctx(t, j, f) == [t |-> t, j |-> j, f |-> f]

(***************************************************************************)
(* Orchestrator (convertToEpub), one operator per synchronous stretch      *)
(***************************************************************************)
InvalidUrl == Error("Invalid URL", EmptyStr, 0)
InvalidUrlProvided == Error("Invalid URL provided", EmptyStr, 0)
NoLinksFound == Error("No documentation links found", EmptyStr, 0)
BodyFailed == Error("terminated", EmptyStr, 0)
ZipFailed == Error("generateAsync failed", EmptyStr, 0)

\* a top-level catch that logs the error and throws it again
ConvertCatchRethrows(c, id, error) ==
  Ctx(c.t, [c.j EXCEPT !.pc = "returned", !.error = error, !.promise = "rejected"], c.f)

\* a top-level catch that logs the error and leaves the record as it is
ConvertCatchLogsOnly(c, id, error) ==
  Ctx(c.t, [c.j EXCEPT !.pc = "returned", !.error = error, !.promise = "fulfilled"], c.f)

\* a top-level catch that records failed and keeps the progress reached
ConvertCatchKeepsProgress(c, id, error) ==
  Ctx(UpdateStatus(c.t, id, "failed",
                   IF id \in DOMAIN c.t.map THEN c.t.map[id].progress ELSE Whole(0),
                   ConversionFailed(error)),
      [c.j EXCEPT !.pc = "returned", !.error = error, !.promise = "fulfilled"],
      c.f)

\* the top-level catch of convertToEpub
ConvertCatch(c, id, error) ==
  Ctx(UpdateStatus(c.t, id, "failed", Whole(0), ConversionFailed(error)),
      [c.j EXCEPT !.pc = "returned", !.error = error, !.promise = "fulfilled"],
      c.f)

\* the .catch callback POST attaches to the promise of convertToEpub
PostCatch(c, id) ==
  IF c.j.promise = "rejected" /\ id \in DOMAIN c.t.map
    THEN [c EXCEPT !.t = MapSet(c.t, id, [c.t.map[id] EXCEPT
                                  !.status = "failed",
                                  !.message = ConversionFailed(c.j.error)])]
    ELSE c

\* the same with the parentheses misplaced: (20 + i * 60) / n
PageProgressMisplaced(i, n) == Frac(20 + i * 60, n)

\* the progress written at page i of n: 20 + (i * 60 / n)
PageProgress(i, n) == Frac(20 * n + i * 60, n)

\* a loop after which a job without any chapter is failed
LoopFromRejectsEmpty(c, id, i) ==
  LET n == Len(c.j.links) IN
    IF i < n
      THEN Ctx(UpdateStatus(c.t, id, "processing", PageProgress(i, n),
                            Msg("Processing page", i + 1, n, NoError)),
               [c.j EXCEPT !.pc = "fetchPage", !.i = i, !.response = NoResponse],
               Append(c.f, c.j.links[i + 1]))
    ELSE IF c.j.chapters = <<>>
      THEN ConvertCatch(c, id, Error("No chapters extracted", EmptyStr, 0))
      ELSE Ctx(UpdateStatus(c.t, id, "processing", Whole(80), Plain("Creating EPUB file...")),
               [c.j EXCEPT !.pc = "generate", !.i = i, !.response = NoResponse],
               c.f)

\* a loop that issues the fetch of every remaining page at once
LoopFromAllAtOnce(c, id, i) ==
  LET n == Len(c.j.links) IN
    IF i < n
      THEN Ctx(UpdateStatus(c.t, id, "processing", PageProgress(i, n),
                            Msg("Processing page", i + 1, n, NoError)),
               [c.j EXCEPT !.pc = "fetchPage", !.i = i, !.response = NoResponse],
               c.f \o SubSeq(c.j.links, i + 1, n))
      ELSE Ctx(UpdateStatus(c.t, id, "processing", Whole(80), Plain("Creating EPUB file...")),
               [c.j EXCEPT !.pc = "generate", !.i = i, !.response = NoResponse],
               c.f)

\* the page loop from index i (0-based) to the next await; the response of
\* the call that returned is out of scope
LoopFrom(c, id, i) ==
  LET n == Len(c.j.links) IN
    IF i < n
      THEN Ctx(UpdateStatus(c.t, id, "processing", PageProgress(i, n),
                            Msg("Processing page", i + 1, n, NoError)),
               [c.j EXCEPT !.pc = "fetchPage", !.i = i, !.response = NoResponse],
               Append(c.f, c.j.links[i + 1]))
      ELSE Ctx(UpdateStatus(c.t, id, "processing", Whole(80), Plain("Creating EPUB file...")),
               [c.j EXCEPT !.pc = "generate", !.i = i, !.response = NoResponse],
               c.f)

\* a loop in which a page without an article ends the conversion
AfterPageAborting(c, id, outcome) ==
  IF outcome.threw \/ outcome.value = <<>>
    THEN ConvertCatch(c, id, Error("Failed to process", c.j.links[c.j.i + 1], 0))
    ELSE LoopFrom([c EXCEPT !.j.chapters = Append(@, outcome.value[1])], id, c.j.i + 1)

\* the body of the loop after processPageWithReadability settled
AfterPage(c, id, outcome) ==
  IF outcome.threw THEN LoopFrom(c, id, c.j.i + 1)
  ELSE IF outcome.value # <<>>
    THEN LoopFrom([c EXCEPT !.j.chapters = Append(@, outcome.value[1])], id, c.j.i + 1)
    ELSE LoopFrom(c, id, c.j.i + 1)

\* a start that validates the URL before the first updateStatus
StartConvertValidatesFirst(c, id) ==
  IF ParseURL(c.j.url) = <<>> THEN ConvertCatch(c, id, InvalidUrl)
  ELSE IF ParseURL(c.j.url)[1].protocol = "" \/ ParseURL(c.j.url)[1].hostname = <<>>
    THEN ConvertCatch(c, id, InvalidUrlProvided)
  ELSE Ctx(UpdateStatus(c.t, id, "processing", Whole(10),
                        Plain("Analyzing documentation structure...")),
           [c.j EXCEPT !.pc = "fetchSeed"], c.f)

\* a conversion that is only queued by the call and starts in a later task
StartConvertDeferred(c, id) == [c EXCEPT !.j.pc = "queued"]

\* from the start of convertToEpub to the fetch of the seed page
StartConvert(c, id) ==
  LET t0 == UpdateStatus(c.t, id, "processing", Whole(0), Plain("Starting conversion..."))
      c0 == [c EXCEPT !.t = t0] IN
    IF ParseURL(c.j.url) = <<>> THEN ConvertCatch(c0, id, InvalidUrl)
    ELSE IF ParseURL(c.j.url)[1].protocol = "" \/ ParseURL(c.j.url)[1].hostname = <<>>
      THEN ConvertCatch(c0, id, InvalidUrlProvided)
    ELSE Ctx(UpdateStatus(t0, id, "processing", Whole(10),
                          Plain("Analyzing documentation structure...")),
             [c.j EXCEPT !.pc = "fetchSeed"], c.f)

\* the same without the response.ok test
AfterSeedFetchAnyStatus(c, id, r) ==
  IF r.rejected THEN ConvertCatch(c, id, FetchFailed)
  ELSE [c EXCEPT !.j.pc = "readSeed"]

\* fetch(url) of the seed settled
AfterSeedFetch(c, id, r) ==
  IF r.rejected THEN ConvertCatch(c, id, FetchFailed)
  ELSE IF ~ResponseOk(r) THEN ConvertCatch(c, id, HttpError(c.j.url, r.status))
  ELSE [c EXCEPT !.j.pc = "readSeed"]

\* the same with a list that holds only the seed counted as empty
AfterSeedTextSeedOnlyEmpty(c, id, bodyRead) ==
  IF ~bodyRead THEN ConvertCatch(c, id, BodyFailed)
  ELSE LET links == LinksFromDocument(c.j.url, c.j.seedResponse.body)
           c1 == [c EXCEPT !.j.links = links] IN
    IF Len(links) <= 1 THEN ConvertCatch(c1, id, NoLinksFound)
    ELSE LoopFrom([c1 EXCEPT !.t = UpdateStatus(c.t, id, "processing", Whole(20),
                                      Msg("Found pages to convert...", Len(links), 0, NoError))],
                  id, 0)

\* response.text() of the seed settled: links, the empty test, the first page
AfterSeedText(c, id, bodyRead) ==
  IF ~bodyRead THEN ConvertCatch(c, id, BodyFailed)
  ELSE LET links == LinksFromDocument(c.j.url, c.j.seedResponse.body)
           c1 == [c EXCEPT !.j.links = links] IN
    IF Len(links) = 0 THEN ConvertCatch(c1, id, NoLinksFound)
    ELSE LoopFrom([c1 EXCEPT !.t = UpdateStatus(c.t, id, "processing", Whole(20),
                                      Msg("Found pages to convert...", Len(links), 0, NoError))],
                  id, 0)

\* the same with an await between the attachment and the last updateStatus
AfterGenerateAttachFirst(c, id, generated) ==
  IF ~generated THEN ConvertCatch(c, id, ZipFailed)
  ELSE IF id \in DOMAIN c.t.map /\ c.t.map[id].epubBuffer = <<>>
    THEN LET epubBuffer == CreateEpub(IF c.j.title # <<>> THEN c.j.title ELSE DefaultTitle,
                                      c.j.chapters)
             t1 == UpdateStatus(c.t, id, "processing", Whole(90), Plain("Finalizing...")) IN
      Ctx(MapSet(t1, id, [t1.map[id] EXCEPT !.download_url = <<id>>,
                                            !.epubBuffer = <<epubBuffer>>]),
          c.j, c.f)
  ELSE Ctx(UpdateStatus(c.t, id, "completed", Whole(100),
                        Plain("Conversion completed successfully!")),
           [c.j EXCEPT !.pc = "returned", !.promise = "fulfilled"], c.f)

\* zip.generateAsync settled: attach the binary and complete, or fail
AfterGenerate(c, id, generated) ==
  IF ~generated THEN ConvertCatch(c, id, ZipFailed)
  ELSE LET epubBuffer == CreateEpub(IF c.j.title # <<>> THEN c.j.title ELSE DefaultTitle,
                                    c.j.chapters)
           t1 == UpdateStatus(c.t, id, "processing", Whole(90), Plain("Finalizing..."))
           t2 == IF id \in DOMAIN t1.map
                   THEN MapSet(t1, id, [t1.map[id] EXCEPT !.download_url = <<id>>,
                                                      !.epubBuffer = <<epubBuffer>>])
                   ELSE t1
           t3 == UpdateStatus(t2, id, "completed", Whole(100),
                              Plain("Conversion completed successfully!")) IN
    Ctx(t3, [c.j EXCEPT !.pc = "returned", !.promise = "fulfilled"], c.f)

(***************************************************************************)
(* Inputs of the conversion: request bodies and what the network returns   *)
(***************************************************************************)
Body(json, url, title) == [json |-> json, url |-> url, title |-> title]

\* the last one is a request whose body is not JSON
Bodies ==
  { Body(TRUE, SeedGuide, <<>>), Body(TRUE, SeedMalformed, <<"Q", "&", "A">>),
    Body(TRUE, SeedFile, <<>>), Body(TRUE, EmptyStr, <<"Q", "&", "A">>),
    Body(FALSE, EmptyStr, <<>>) }

\* a seed page without any valid anchor, and one whose navigation region
\* holds two valid anchors, a PDF link and an external link
LonelyPage == NavPage(<<>>, <<HrefPdf>>, <<>>)
GuidePage == NavPage(<<>>, <<HrefA, HrefRelB, HrefPdf, HrefExternal>>, <<PageN(1)>>)

JobSeedResponses ==
  { Rejection, Response(404, HtmlType, <<>>),
    Response(200, HtmlType, LonelyPage), Response(200, HtmlType, GuidePage) }

NoDocument == Document("empty", <<>>, <<>>, <<>>)
GoodDocument ==
  Document("good", << Article(<<"Guide">>, Content(MinContentLength, 2), "intro") >>,
           <<"Doc">>, <<"Head">>)
ShortDocument ==
  Document("short", << Article(<<>>, Content(MinContentLength - 1, 2), "") >>, <<"Doc">>, <<>>)

JobPageResponses ==
  { Rejection, Response(500, HtmlType, NoDocument), Response(200, XmlType, GoodDocument),
    Response(200, HtmlType, GoodDocument), Response(200, HtmlType, ShortDocument),
    Response(200, HtmlType, NoDocument) }

(***************************************************************************)
(* Actions: one per request handler and per resumption of convertToEpub    *)
(***************************************************************************)
Commit(id, c) ==
  /\ tasks' = c.t.map
  /\ writes' = c.t.log
  /\ job' = [job EXCEPT ![id] = c.j]
  /\ fetched' = [fetched EXCEPT ![id] = c.f]

Here(id) == Ctx(Store(tasks, writes), job[id], fetched[id])

\* a test that lets every body through
UrlMissingNever(body) == FALSE

\* !body.url
UrlMissing(body) == body.url = EmptyStr

\* POST /api/convert, up to the first await of the conversion it starts
Post(body) ==
  /\ UNCHANGED <<arg, res>>
  /\ IF ~body.json
       THEN /\ reply' = Reply("convert", 500, "", "Failed to start conversion", <<>>)
            /\ UNCHANGED <<tasks, writes, job, fetched>>
     ELSE IF UrlMissing(body)
       THEN /\ reply' = Reply("convert", 400, "", "URL is required", <<>>)
            /\ UNCHANGED <<tasks, writes, job, fetched>>
     ELSE \E task_id \in TaskIds \ DOMAIN tasks :
            LET stored == MapSet(Store(tasks, writes), task_id,
                                 NewTask(task_id, body.url, body.title))
                call == [NoJob EXCEPT !.url = body.url, !.title = body.title,
                                      !.promise = "pending"] IN
              /\ Commit(task_id, PostCatch(StartConvert(Ctx(stored, call, <<>>), task_id),
                                           task_id))
              /\ reply' = Reply("convert", 200, task_id, "Conversion started", <<>>)

\* the fetch of the seed page settles
SeedFetched(id, r) ==
  /\ job[id].pc = "fetchSeed"
  /\ Commit(id, PostCatch(AfterSeedFetch([Here(id) EXCEPT !.j.seedResponse = r], id, r), id))
  /\ reply' = NoReply
  /\ UNCHANGED <<arg, res>>

\* response.text() of the seed page settles
SeedRead(id, bodyRead) ==
  /\ job[id].pc = "readSeed"
  /\ Commit(id, PostCatch(AfterSeedText(Here(id), id, bodyRead), id))
  /\ reply' = NoReply
  /\ UNCHANGED <<arg, res>>

\* the fetch of content page i settles
PageFetched(id, r) ==
  /\ job[id].pc = "fetchPage"
  /\ LET c == [Here(id) EXCEPT !.j.response = r]
         url == job[id].links[job[id].i + 1] IN
       IF PageAfterFetch(url, r) = <<>>
         THEN Commit(id, [c EXCEPT !.j.pc = "readPage"])
         ELSE Commit(id, PostCatch(AfterPage([c EXCEPT !.j.results =
                                                Append(@, PageAfterFetch(url, r)[1])],
                                             id, PageAfterFetch(url, r)[1]), id))
  /\ reply' = NoReply
  /\ UNCHANGED <<arg, res>>

\* response.text() of content page i settles
PageRead(id, bodyRead) ==
  /\ job[id].pc = "readPage"
  /\ LET url == job[id].links[job[id].i + 1]
         outcome == PageAfterText(url, job[id].response, bodyRead) IN
       Commit(id, PostCatch(AfterPage([Here(id) EXCEPT !.j.results = Append(@, outcome)],
                                      id, outcome), id))
  /\ reply' = NoReply
  /\ UNCHANGED <<arg, res>>

\* zip.generateAsync settles
Generated(id, generated) ==
  /\ job[id].pc = "generate"
  /\ Commit(id, PostCatch(AfterGenerate(Here(id), id, generated), id))
  /\ reply' = NoReply
  /\ UNCHANGED <<arg, res>>

\* a status body that reports the record as it was created
ConversionStatusAsCreated(task) ==
  [task_id |-> task.task_id, status |-> "pending", progress |-> Whole(0),
   message |-> Plain("Conversion queued"), download_url |-> <<>>]

\* the body of a status response
ConversionStatus(task) ==
  [task_id |-> task.task_id, status |-> task.status, progress |-> task.progress,
   message |-> task.message, download_url |-> task.download_url]

\* GET /api/status/[taskId]
GetStatus(taskId) ==
  /\ reply' = IF taskId = "" THEN Reply("status", 400, taskId, "Task ID is required", <<>>)
              ELSE IF taskId \notin DOMAIN tasks
                THEN Reply("status", 404, taskId, "Task not found", <<>>)
              ELSE Reply("status", 200, taskId, "", << ConversionStatus(tasks[taskId]) >>)
  /\ UNCHANGED <<tasks, writes, job, fetched, arg, res>>

NonAlphanumeric == Metacharacters \cup {" ", ";", ".", "/", ":", "?", "#", "-", "_"}

\* task.title.replace(/[^a-zA-Z0-9]/g, '-') followed by .epub
Filename(title) ==
  [k \in 1..Len(title) |-> IF title[k] \in NonAlphanumeric THEN "-" ELSE title[k]]
    \o << ".epub" >>

\* a download that does not look at the status of the task
DownloadRefusedAnyStatus(task) == FALSE

\* task.status !== 'completed'
DownloadRefused(task) == task.status # "completed"

\* GET /api/download/[taskId]
GetDownload(taskId) ==
  /\ reply' = IF taskId = "" THEN Reply("download", 400, taskId, "Task ID is required", <<>>)
              ELSE IF taskId \notin DOMAIN tasks
                THEN Reply("download", 404, taskId, "Task not found", <<>>)
              ELSE IF DownloadRefused(tasks[taskId])
                THEN Reply("download", 400, taskId, "Conversion not completed yet", <<>>)
              ELSE IF tasks[taskId].epubBuffer = <<>>
                THEN Reply("download", 404, taskId, "EPUB file not found", <<>>)
              ELSE Reply("download", 200, taskId, "",
                         << [epub |-> tasks[taskId].epubBuffer[1],
                             contentType |-> "application/epub+zip",
                             filename |-> Filename(tasks[taskId].title)] >>)
  /\ UNCHANGED <<tasks, writes, job, fetched, arg, res>>

Init ==
  /\ tasks = <<>>
  /\ writes = [id \in TaskIds |-> <<>>]
  /\ job = [id \in TaskIds |-> NoJob]
  /\ fetched = [id \in TaskIds |-> <<>>]
  /\ reply = NoReply
  /\ arg = <<>>
  /\ res = <<>>

Next ==
  \/ \E body \in Bodies : Post(body)
  \/ \E id \in TaskIds, r \in JobSeedResponses : SeedFetched(id, r)
  \/ \E id \in TaskIds, bodyRead \in BOOLEAN : SeedRead(id, bodyRead)
  \/ \E id \in TaskIds, r \in JobPageResponses : PageFetched(id, r)
  \/ \E id \in TaskIds, bodyRead \in BOOLEAN : PageRead(id, bodyRead)
  \/ \E id \in TaskIds, generated \in BOOLEAN : Generated(id, generated)
  \/ \E taskId \in TaskIds : GetStatus(taskId)
  \/ \E taskId \in TaskIds : GetDownload(taskId)

Spec == Init /\ [][Next]_vars

(***************************************************************************)
(* The link extractor as a function of the seed URL and the fetch outcome  *)
(***************************************************************************)
InitLinks ==
  /\ tasks = <<>>
  /\ writes = [id \in TaskIds |-> <<>>]
  /\ job = [id \in TaskIds |-> NoJob]
  /\ fetched = [id \in TaskIds |-> <<>>]
  /\ reply = NoReply
  /\ arg \in LinkInputs(MaxNodes, MaxInside, Overflow)
  /\ res = <<>>

ApplyLinks ==
  /\ res = <<>>
  /\ res' = << ExtractAwsDocumentationLinks(arg.url, arg.response) >>
  /\ UNCHANGED <<tasks, writes, job, fetched, reply, arg>>

SpecLinks == InitLinks /\ [][ApplyLinks]_vars

(***************************************************************************)
(* Properties of the orchestrator                                          *)
(***************************************************************************)
Finished(id) == job[id].promise \notin {"none", "pending"}
StatusOf(id) == tasks[id].status

\* C1: when convertToEpub has finished for a job whose record exists, the
\* status is completed or failed (never pending or processing), and the
\* promise it returned is fulfilled, never rejected.
ConvertLeavesTerminalStatus ==
  \A id \in TaskIds :
    Finished(id) =>
      /\ job[id].promise = "fulfilled"
      /\ job[id].pc = "returned"
      /\ id \in DOMAIN tasks => StatusOf(id) \in {"completed", "failed"}

\* one job finished by success and the other through the top-level catch
BothEndingsReached ==
  \E a, b \in TaskIds :
    /\ Finished(a) /\ Finished(b)
    /\ a \in DOMAIN tasks /\ b \in DOMAIN tasks
    /\ StatusOf(a) = "completed"
    /\ StatusOf(b) = "failed" /\ job[b].error = ZipFailed

AllowedStatusChanges ==
  { <<"pending", "processing">>, <<"processing", "completed">>, <<"processing", "failed">> }

\* C2: the successive writes to a job record change its status only by
\* pending -> processing, processing -> completed or processing -> failed;
\* in particular nothing is written over completed or failed with another
\* status.  The record starts pending and holds what was written last.
OnlyAllowedStatusChanges ==
  \A id \in TaskIds :
    /\ \A k \in 1..(Len(writes[id]) - 1) :
         writes[id][k].status # writes[id][k + 1].status =>
           <<writes[id][k].status, writes[id][k + 1].status>> \in AllowedStatusChanges
    /\ writes[id] # <<>> =>
         /\ writes[id][1].status = "pending"
         /\ id \in DOMAIN tasks
         /\ StatusOf(id) = writes[id][Len(writes[id])].status

\* a record went pending -> processing -> failed within the submit request
FailedDuringSubmit ==
  \E id \in DOMAIN tasks :
    /\ StatusOf(id) = "failed"
    /\ job[id].error = InvalidUrl
    /\ Len(writes[id]) = 3

RECURSIVE ArticlesOf(_)
ArticlesOf(results) ==
  IF results = <<>> THEN <<>>
  ELSE IF ~Head(results).threw /\ Head(results).value # <<>>
    THEN << Head(results).value[1] >> \o ArticlesOf(Tail(results))
    ELSE ArticlesOf(Tail(results))

PageLoopDone(id) ==
  job[id].pc = "generate" \/ (job[id].pc = "returned" /\ job[id].links # <<>>)

\* C4: whatever subset of the N pages fails, the page loop runs to the end:
\* each link is fetched exactly once, in list order; the chapter list handed
\* to the packager is exactly the extracted articles in that order; and the
\* job completes with these chapters (it fails only if the packager throws).
PageFailuresAreSkipped ==
  \A id \in TaskIds :
    /\ job[id].links # <<>> /\ StatusOf(id) = "failed" => job[id].error = ZipFailed
    /\ PageLoopDone(id) =>
         /\ fetched[id] = job[id].links
         /\ Len(job[id].results) = Len(job[id].links)
         /\ job[id].chapters = ArticlesOf(job[id].results)
         /\ \A k \in 1..Len(job[id].chapters) :
              \E m \in 1..Len(job[id].links) : job[id].chapters[k].url = job[id].links[m]
         /\ job[id].pc = "returned" /\ job[id].error # ZipFailed =>
              /\ StatusOf(id) = "completed"
              /\ tasks[id].epubBuffer # <<>>
              /\ tasks[id].epubBuffer[1] = CreateEpub(tasks[id].title, ArticlesOf(job[id].results))

\* three links, one page failed, completed with the two other chapters
CompletedWithOnePageMissing ==
  \E id \in DOMAIN tasks :
    /\ StatusOf(id) = "completed"
    /\ Len(job[id].links) = 3
    /\ Len(job[id].chapters) = 2
    /\ tasks[id].epubBuffer = << CreateEpub(tasks[id].title, job[id].chapters) >>
    /\ job[id].results[2].value = <<>>

NothingAttached(id) == tasks[id].download_url = <<>> /\ tasks[id].epubBuffer = <<>>

FailedWith(id, error) ==
  /\ StatusOf(id) = "failed"
  /\ tasks[id].message = Msg("Conversion failed: ", 0, 0, error)
  /\ NothingAttached(id)

\* C5: a malformed seed URL, a seed fetch that rejects or answers non-2xx,
\* or a packager that throws leaves the job failed with the message
\* 'Conversion failed: ' followed by the text of that error, with no binary
\* and no download handle; no content page is fetched after the failure.
FatalFailuresAreRecorded ==
  \A id \in TaskIds :
    Finished(id) =>
      /\ ParseURL(job[id].url) = <<>> =>
           FailedWith(id, InvalidUrl) /\ fetched[id] = <<>>
      /\ job[id].seedResponse.rejected =>
           FailedWith(id, FetchFailed) /\ fetched[id] = <<>>
      /\ job[id].seedResponse # NoResponse /\ ~job[id].seedResponse.rejected
           /\ ~ResponseOk(job[id].seedResponse) =>
           FailedWith(id, HttpError(job[id].url, job[id].seedResponse.status))
             /\ fetched[id] = <<>>
      /\ job[id].error = ZipFailed =>
           FailedWith(id, ZipFailed) /\ fetched[id] = job[id].links

\* the seed answered 404 and the job is failed with that text
FailedOnSeedStatus ==
  \E id \in DOMAIN tasks :
    /\ Finished(id)
    /\ job[id].seedResponse.status = 404
    /\ tasks[id].message.cause = HttpError(job[id].url, 404)

\* no anchor of the page passes the validity predicate
NoValidAnchor(page, url) == ExtractLinksFromElement(page, 0, url) = <<>>

\* the seed page was fetched and read, and none of its anchors is valid
SeedWithoutValidAnchor(id) ==
  /\ job[id].pc \notin {"none", "fetchSeed", "readSeed"}
  /\ ResponseOk(job[id].seedResponse)
  /\ job[id].error # BodyFailed
  /\ NoValidAnchor(job[id].seedResponse.body, job[id].url)

\* C6 as stated: when no anchor of the seed page passes the validity
\* predicate the job ends failed with 'No documentation links found', no
\* page is fetched and no progress above the link-discovery milestone (10)
\* is written.
NoValidAnchorFailsTheJob ==
  \A id \in TaskIds :
    Finished(id) /\ SeedWithoutValidAnchor(id) =>
      /\ FailedWith(id, NoLinksFound)
      /\ fetched[id] = <<>>
      /\ \A k \in 1..Len(writes[id]) : Leq(writes[id][k].progress, Whole(10))

\* C6 amended: link discovery never returns an empty list, so no job fails
\* with 'No documentation links found'; when no anchor of the seed page
\* passes the validity predicate the link list is the seed URL alone and the
\* seed page is fetched as the only content page.
NoValidAnchorLeavesTheSeed ==
  \A id \in TaskIds :
    /\ job[id].error # NoLinksFound
    /\ SeedWithoutValidAnchor(id) =>
         /\ job[id].links = << job[id].url >>
         /\ fetched[id] = << job[id].url >>

\* a seed page without valid anchors, and the job completed
CompletedWithSeedOnly ==
  \E id \in DOMAIN tasks :
    /\ SeedWithoutValidAnchor(id)
    /\ StatusOf(id) = "completed"
    /\ tasks[id].progress = Whole(100)

(***************************************************************************)
(* The content extractor as a function of the URL and what fetch and       *)
(* response.text() produced                                                *)
(***************************************************************************)
MaxPad == 1          \* white space around the content of a generated document

ContentLengths == {0, 1, MinContentLength - 1, MinContentLength, MinContentLength + 1}

\* texts of <title> and of the first <h1>: missing, blank, or a word with
\* white space around it; titles Readability gives: none, blank, a word
DocTitles == { <<>>, <<"Doc">>, <<" ">>, <<" ", "Doc", " ">> }
Headings == { <<>>, <<"Head">>, <<" ", " ">>, <<"Head", " ">> }
ArticleTitles == { <<>>, <<"Guide">>, <<" ">> }

PageDocuments(maxPad) ==
  { Document("doc", <<>>, dt, h) : dt \in {<<>>, <<"Doc">>}, h \in {<<>>, <<"Head">>} }
    \cup { Document("doc", << Article(t, Content(len, pad), e) >>, dt, h) :
             t \in ArticleTitles, len \in ContentLengths, pad \in 0..maxPad,
             e \in {"", "intro"}, dt \in DocTitles, h \in Headings }

PageResponses(maxPad) ==
  { Response(st, ct, doc) :
      st \in {200, 404}, ct \in {<<>>, HtmlType, XmlType, XhtmlType},
      doc \in PageDocuments(maxPad) }
    \cup { Rejection }

InitPage ==
  /\ tasks = <<>>
  /\ writes = [id \in TaskIds |-> <<>>]
  /\ job = [id \in TaskIds |-> NoJob]
  /\ fetched = [id \in TaskIds |-> <<>>]
  /\ reply = NoReply
  /\ arg \in { [url |-> u, response |-> r, bodyRead |-> b] :
                 u \in {PageA, PageB}, r \in PageResponses(MaxPad), b \in BOOLEAN }
  /\ res = <<>>

ApplyPage ==
  /\ res = <<>>
  /\ res' = << ProcessPageWithReadability(arg.url, arg.response, arg.bodyRead) >>
  /\ UNCHANGED <<tasks, writes, job, fetched, reply, arg>>

SpecPage == InitPage /\ [][ApplyPage]_vars

(***************************************************************************)
(* Properties of the link extractor (under SpecLinks)                      *)
(***************************************************************************)
LinksReturned == res # <<>> /\ ~res[1].threw

\* the absolute URL string the extractor derives from anchor k, if any
ResolvedHref(page, k, url) ==
  IF page[k].href = EmptyStr \/ ResolveURL(page[k].href, url) = <<>> THEN <<>>
  ELSE << URLToString(ResolveURL(page[k].href, url)[1]) >>

\* the position in `anchors` where link is first seen, 0 if nowhere
FirstSeenAt(page, anchors, url, link) ==
  IF \E p \in 1..Len(anchors) : ResolvedHref(page, anchors[p], url) = <<link>>
    THEN CHOOSE p \in 1..Len(anchors) :
           /\ ResolvedHref(page, anchors[p], url) = <<link>>
           /\ \A q \in 1..(p - 1) : ResolvedHref(page, anchors[q], url) # <<link>>
    ELSE 0

\* after the seed, the entries are anchors of one scanned element (the root
\* or a container) and stand in the order in which that scan first meets them
InFirstSeenOrder(links, page, url) ==
  \E el \in {0} \cup { k \in 1..Len(page) : page[k].marks # {} } :
    LET anchors == QuerySelectorAllAnchors(page, el) IN
      /\ \A i \in 2..Len(links) : FirstSeenAt(page, anchors, url, links[i]) # 0
      /\ \A i \in 2..(Len(links) - 1) :
           FirstSeenAt(page, anchors, url, links[i])
             < FirstSeenAt(page, anchors, url, links[i + 1])

SeedIsFirst ==
  LinksReturned =>
    /\ res[1].links # <<>>
    /\ res[1].links[1] = arg.url

\* a seed that is not a valid link itself, in front of a link of its page
InvalidSeedStillFirst ==
  /\ LinksReturned
  /\ ~IsValidAwsDocumentationLink(arg.url)
  /\ Len(res[1].links) >= 2
  /\ res[1].links[1] = arg.url

\* s without the strings in seen and without repetitions, order kept
Unique(s, seen) ==
  LET kept == SelectSeq(Positions(Len(s)),
                        LAMBDA p : s[p] \notin seen /\ \A q \in 1..(p - 1) : s[q] # s[p]) IN
    [i \in 1..Len(kept) |-> s[kept[i]]]

\* the region holds an anchor that resolves to an excluded file type, and one
\* that resolves to a host outside the documentation domains
HoldsPdfAndExternal(page, el, url) ==
  LET anchors == QuerySelectorAllAnchors(page, el)
      parsed(p) == ResolveURL(page[anchors[p]].href, url) IN
    /\ \E p \in 1..Len(anchors) :
         parsed(p) # <<>> /\ MatchesExcludedExtension(parsed(p)[1].pathname)
    /\ \E p \in 1..Len(anchors) :
         parsed(p) # <<>> /\ ~Includes(parsed(p)[1].hostname, AwsHost)

\* C9: when the first matching TOC region of the seed page holds valid
\* anchors together with a PDF link and an external link, the list returned
\* is the seed followed by the valid anchors of that region in document
\* order (each once, the first 100), whatever anchors stand elsewhere.
TocRegionAloneDecides ==
  LinksReturned =>
    LET page == arg.response.body
        el == FirstTocElement(page, 1)
        regionLinks == ExtractLinksFromElement(page, el, arg.url)
        expected == << arg.url >> \o Unique(regionLinks, {arg.url}) IN
      (el # 0 /\ regionLinks # <<>> /\ HoldsPdfAndExternal(page, el, arg.url)) =>
        res[1].links = SubSeq(expected, 1, Min(MaxPages, Len(expected)))

(***************************************************************************)
(* Properties of the content extractor (under SpecPage)                    *)
(***************************************************************************)
\* the page has one of the four content problems
ContentProblem(r) ==
  \/ ~ResponseOk(r)
  \/ IsXmlNotHtml(r.contentType)
  \/ r.body.article = <<>>
  \/ RawLength(r.body.article[1].content) = 0
  \/ TrimmedLength(r.body.article[1].content) < MinContentLength

IsArticleFor(outcome, url) ==
  /\ ~outcome.threw
  /\ outcome.value # <<>>
  /\ outcome.value[1].url = url

IsNull(outcome) == ~outcome.threw /\ outcome.value = <<>>

ArticleExtracted ==
  /\ res # <<>>
  /\ ~arg.response.rejected
  /\ ResponseOk(arg.response)
  /\ ~IsXmlNotHtml(arg.response.contentType)
  /\ arg.bodyRead
  /\ arg.response.body.article # <<>>

\* C11: for an extracted article whose trimmed cleaned content has length L,
\* processPageWithReadability returns null when L <= 99 and the article (with
\* the trimmed content) when L >= 100, whatever white space surrounds it.
ThresholdOnTrimmedLength ==
  ArticleExtracted =>
    LET L == TrimmedLength(arg.response.body.article[1].content) IN
      /\ L <= MinContentLength - 1 => IsNull(res[1])
      /\ L >= MinContentLength =>
           /\ IsArticleFor(res[1], arg.url)
           /\ res[1].value[1].cleanedContent = L

\* 99 characters inside white space: the raw length is 100 or more, the
\* result is null
NinetyNinePaddedIsNull ==
  /\ ArticleExtracted
  /\ TrimmedLength(arg.response.body.article[1].content) = MinContentLength - 1
  /\ RawLength(arg.response.body.article[1].content) >= MinContentLength
  /\ IsNull(res[1])

(***************************************************************************)
(* escapeXml as a function of its argument                                 *)
(***************************************************************************)
MaxText == 4         \* characters of a generated text

TextChars == {"<", ">", "&", "'", "\"", "l", "t", ";"}

Texts(maxText) == UNION { SeqsOf(TextChars, n) : n \in 0..maxText }

InitEscape ==
  /\ tasks = <<>>
  /\ writes = [id \in TaskIds |-> <<>>]
  /\ job = [id \in TaskIds |-> NoJob]
  /\ fetched = [id \in TaskIds |-> <<>>]
  /\ reply = NoReply
  /\ arg \in { [unsafe |-> t] : t \in Texts(MaxText) }
  /\ res = <<>>

ApplyEscape ==
  /\ res = <<>>
  /\ res' = << EscapeXml(arg.unsafe) >>
  /\ UNCHANGED <<tasks, writes, job, fetched, reply, arg>>

SpecEscape == InitEscape /\ [][ApplyEscape]_vars

(***************************************************************************)
(* createEpub as a function of the title and the chapter list              *)
(***************************************************************************)
MaxChapters == 2     \* chapters of a generated book

PageQuery ==                           \* .../guide/q.html?a=1&b=2
  Str("https", DocsAwsHost, <<"/", "guide", "/", "q", ".", "html">>, <<"a=1", "&", "b=2">>, <<>>)

EpubTitles == { <<"Guide">>, <<"Q", "&", "A">>, <<"<", "b", ">">>, <<"'", "&", "l", "t", ";", "\"">> }

\* the articles the content extractor returns for pages with these titles
EpubChapters ==
  { ArticleFromDocument(u, Document("doc", << Article(t, Content(MinContentLength + len, 0), "") >>,
                                    <<>>, <<>>))[1] :
      u \in {PageA, PageQuery}, t \in {<<"Guide">>, <<"a", "<", "b">>}, len \in {0, 1} }

ChapterLists(maxChapters) == UNION { SeqsOf(EpubChapters, n) : n \in 0..maxChapters }

InitEpub ==
  /\ tasks = <<>>
  /\ writes = [id \in TaskIds |-> <<>>]
  /\ job = [id \in TaskIds |-> NoJob]
  /\ fetched = [id \in TaskIds |-> <<>>]
  /\ reply = NoReply
  /\ arg \in { [title |-> t, chapters |-> c] : t \in EpubTitles, c \in ChapterLists(MaxChapters) }
  /\ res = <<>>

ApplyEpub ==
  /\ res = <<>>
  /\ res' = << CreateEpub(arg.title, arg.chapters) >>
  /\ UNCHANGED <<tasks, writes, job, fetched, reply, arg>>

SpecEpub == InitEpub /\ [][ApplyEpub]_vars

(***************************************************************************)
(* Properties of the packager (under SpecEpub and SpecEscape)              *)
(***************************************************************************)
EntityTexts ==
  { <<"&", "l", "t", ";">>, <<"&", "g", "t", ";">>, <<"&", "a", "m", "p", ";">>,
    <<"&", "a", "p", "o", "s", ";">>, <<"&", "q", "u", "o", "t", ";">> }

\* the character an entity reference stands for
Decoded(e) ==
  CASE e = <<"&", "l", "t", ";">> -> "<"
    [] e = <<"&", "g", "t", ";">> -> ">"
    [] e = <<"&", "a", "m", "p", ";">> -> "&"
    [] e = <<"&", "a", "p", "o", "s", ";">> -> "'"
    [] e = <<"&", "q", "u", "o", "t", ";">> -> "\""

\* the entity reference s begins with, <<>> if it begins with none
EntityAt(s) ==
  IF \E e \in EntityTexts : Len(s) >= Len(e) /\ SubSeq(s, 1, Len(e)) = e
    THEN CHOOSE e \in EntityTexts : Len(s) >= Len(e) /\ SubSeq(s, 1, Len(e)) = e
    ELSE <<>>

\* what an XML parser reads back: each of the five references decoded, once
RECURSIVE UnescapeXml(_)
UnescapeXml(s) ==
  IF s = <<>> THEN <<>>
  ELSE IF EntityAt(s) # <<>>
    THEN << Decoded(EntityAt(s)) >> \o UnescapeXml(SubSeq(s, Len(EntityAt(s)) + 1, Len(s)))
    ELSE << Head(s) >> \o UnescapeXml(Tail(s))

\* no raw < > ' " and every & begins one of the five references
WellEscaped(out) ==
  \A k \in 1..Len(out) :
    /\ out[k] \notin {"<", ">", "'", "\""}
    /\ out[k] = "&" => EntityAt(SubSeq(out, k, Len(out))) # <<>>

\* C14: for every string s over < > & ' " and ordinary characters,
\* escapeXml(s) holds no raw < > ' ", every & in it begins one of the five
\* entity references, and decoding the references gives s back, also when s
\* already holds entity-like text.
EscapeRoundTrips ==
  res # <<>> =>
    /\ WellEscaped(res[1])
    /\ UnescapeXml(res[1]) = arg.unsafe

\* the text &lt; was escaped to &amp;lt;
EntityLikeTextEscaped ==
  /\ res = << <<"&", "a", "m", "p", ";", "l", "t", ";">> >>
  /\ arg.unsafe = <<"&", "l", "t", ";">>

\* the content of the file of this name
FileNamed(zip, name) == zip[CHOOSE k \in 1..Len(zip) : zip[k].name = name].content

\* the files OEBPS/chapter<i>.xhtml of the archive, in archive order
ChapterFiles(zip) ==
  SelectSeq(zip, LAMBDA f : Len(f.name) = 4 /\ f.name[1] = "OEBPS/" /\ f.name[2] = "chapter")

\* C12: for every title and every list of n >= 0 articles the archive holds
\* exactly the chapter documents chapter0..chapter(n-1), chapter i holding
\* article i; the manifest has one item per chapter plus the navigation
\* document and the stylesheet; the spine lists the navigation document and
\* then the chapters in input order; the navigation document has n links,
\* the i-th to chapter i with the title of article i as its text.
ArchiveFollowsTheChapters ==
  res # <<>> =>
    LET zip == res[1]
        chapters == arg.chapters
        n == Len(arg.chapters)
        files == ChapterFiles(zip)
        opf == FileNamed(zip, <<"OEBPS/content.opf">>)
        toc == FileNamed(zip, <<"OEBPS/toc.xhtml">>) IN
      /\ Len(zip) = n + 5
      /\ \A a, b \in 1..Len(zip) : a # b => zip[a].name # zip[b].name
      /\ Len(files) = n
      /\ \A k \in 1..n :
           /\ files[k].name = <<"OEBPS/", "chapter", ToString(k - 1), ".xhtml">>
           /\ UnescapeXml(files[k].content.title) = chapters[k].title
           /\ UnescapeXml(files[k].content.h1) = chapters[k].title
           /\ files[k].content.body = chapters[k].cleanedContent
           /\ files[k].content.sourceText = UrlText(chapters[k].url)
      /\ Len(opf.manifest) = n + 2
      /\ \E a \in 1..(n + 2) : opf.manifest[a].href = <<"toc.xhtml">>
      /\ \E a \in 1..(n + 2) : opf.manifest[a].href = <<"styles.css">>
      /\ \A k \in 1..n :
           \E a \in 1..(n + 2) :
             /\ opf.manifest[a].id = <<"chapter", ToString(k - 1)>>
             /\ opf.manifest[a].href = <<"chapter", ToString(k - 1), ".xhtml">>
      /\ opf.spine = << <<"toc">> >> \o [k \in 1..n |-> <<"chapter", ToString(k - 1)>>]
      /\ Len(toc) = n
      /\ \A k \in 1..n :
           /\ toc[k].href = <<"chapter", ToString(k - 1), ".xhtml">>
           /\ UnescapeXml(toc[k].text) = chapters[k].title

\* two different articles were packaged as chapter0 and chapter1
TwoChaptersPackaged ==
  /\ res # <<>>
  /\ Len(arg.chapters) = 2
  /\ arg.chapters[1].title # arg.chapters[2].title
  /\ Len(ChapterFiles(res[1])) = 2
  /\ FileNamed(res[1], <<"OEBPS/toc.xhtml">>)[2].text = EscapeXml(arg.chapters[2].title)

\* C13: the book title, each chapter title (navigation document, chapter
\* <title> and <h1>) and each source URL of the attribution block (href
\* attribute and link text) stand in the generated documents in escaped
\* form, so none of their < > & ' " appears raw.
FreeTextIsEscaped ==
  res # <<>> =>
    LET zip == res[1]
        files == ChapterFiles(zip)
        opf == FileNamed(zip, <<"OEBPS/content.opf">>)
        toc == FileNamed(zip, <<"OEBPS/toc.xhtml">>) IN
      /\ opf.title = EscapeXml(arg.title) /\ WellEscaped(opf.title)
      /\ \A k \in 1..Len(arg.chapters) :
           /\ toc[k].text = EscapeXml(arg.chapters[k].title) /\ WellEscaped(toc[k].text)
           /\ files[k].content.title = EscapeXml(arg.chapters[k].title)
           /\ WellEscaped(files[k].content.title)
           /\ files[k].content.h1 = EscapeXml(arg.chapters[k].title)
           /\ WellEscaped(files[k].content.h1)
           /\ files[k].content.sourceHref = EscapeXml(UrlText(arg.chapters[k].url))
           /\ WellEscaped(files[k].content.sourceHref)
           /\ files[k].content.sourceText = EscapeXml(UrlText(arg.chapters[k].url))
           /\ WellEscaped(files[k].content.sourceText)

(***************************************************************************)
(* Properties of the request handlers                                      *)
(***************************************************************************)
Registry == <<tasks, writes, job, fetched>>

\* C15: a submit request without url is answered 400 and changes nothing: no
\* record is created for it and no conversion is started; a submit request
\* with a url creates exactly one record, under an identifier that was not
\* in the registry, first written with status pending and progress 0, starts
\* its conversion, leaves every other record alone and returns the identifier.
SubmitCreatesOneRecord ==
  [][ reply'.op = "convert" =>
        /\ reply'.code \in {200, 400, 500}
        /\ reply'.code # 200 => UNCHANGED Registry
        /\ \A id \in DOMAIN tasks' : tasks'[id].url # EmptyStr
        /\ reply'.code = 200 =>
             LET id == reply'.task_id IN
               /\ id \notin DOMAIN tasks
               /\ DOMAIN tasks' = DOMAIN tasks \cup {id}
               /\ \A x \in DOMAIN tasks :
                    tasks'[x] = tasks[x] /\ writes'[x] = writes[x] /\ job'[x] = job[x]
               /\ tasks'[id].task_id = id
               /\ writes'[id][1] = [status |-> "pending", progress |-> Whole(0)]
               /\ job[id].promise = "none" /\ job'[id].promise # "none"
    ]_vars

\* a request without url was refused while a conversion was fetching pages
MissingUrlRefusedWhileJobRuns ==
  /\ reply = Reply("convert", 400, "", "URL is required", <<>>)
  /\ \E id \in DOMAIN tasks : job[id].pc = "fetchPage"

\* C16: a download request returns the binary only for a job that is
\* completed and has a binary attached, and it is the archive made from that
\* job's own title and chapters; an unknown identifier is answered 404 and a
\* job that is pending, processing or failed 400, without a binary; the
\* registry is the same after the request as before.
DownloadOnlyWhenCompleted ==
  [][ reply'.op = "download" =>
        /\ UNCHANGED Registry
        /\ LET id == reply'.task_id IN
             IF id \notin DOMAIN tasks
               THEN reply'.code = 404 /\ reply'.body = <<>>
             ELSE IF tasks[id].status # "completed"
               THEN reply'.code = 400 /\ reply'.body = <<>>
             ELSE /\ tasks[id].epubBuffer # <<>>
                  /\ reply'.code = 200
                  /\ reply'.body # <<>>
                  /\ reply'.body[1].epub = CreateEpub(tasks[id].title, job[id].chapters)
                  /\ job[id].chapters = ArticlesOf(job[id].results)
    ]_vars

\* a book was downloaded while the other job holds a different book
DownloadedOwnBook ==
  /\ reply.op = "download" /\ reply.code = 200
  /\ \E other \in DOMAIN tasks :
       /\ other # reply.task_id
       /\ tasks[other].epubBuffer # <<>>
       /\ tasks[other].epubBuffer[1] # reply.body[1].epub

\* C17: a status query for an unknown identifier is answered 404; for a known
\* one it returns the id, status, progress, message and download handle the
\* record holds at that moment; the registry and the running conversions are
\* the same after the query as before, whatever state the jobs are in.
StatusReportsTheRecord ==
  [][ reply'.op = "status" =>
        /\ UNCHANGED Registry
        /\ LET id == reply'.task_id IN
             IF id \notin DOMAIN tasks
               THEN reply'.code = 404 /\ reply'.body = <<>>
               ELSE /\ reply'.code = 200
                    /\ reply'.body =
                         << [task_id |-> id, status |-> tasks[id].status,
                             progress |-> tasks[id].progress, message |-> tasks[id].message,
                             download_url |-> tasks[id].download_url] >>
    ]_vars

\* a status query answered between two pages of a three-page job, while the
\* other job was running too
StatusSeenBetweenPages ==
  /\ reply.op = "status" /\ reply.code = 200
  /\ reply.body[1].status = "processing"
  /\ reply.body[1].progress = PageProgress(1, 3)
  /\ \E other \in DOMAIN tasks : other # reply.task_id /\ job[other].pc = "readSeed"

\* C18: no status response carries a download_url for a job that is not
\* completed, and no record holds one (or a binary) unless it is completed:
\* the attachment and the switch to completed fall in one synchronous stretch.
NoUrlBeforeCompleted ==
  /\ reply.op = "status" /\ reply.body # <<>> /\ reply.body[1].download_url # <<>> =>
       reply.body[1].status = "completed"
  /\ \A id \in DOMAIN tasks :
       tasks[id].download_url # <<>> \/ tasks[id].epubBuffer # <<>> =>
         tasks[id].status = "completed"

\* a status response with the download_url, sent while the other job was
\* waiting for its archive
CompletedStatusCarriesUrl ==
  /\ reply.op = "status" /\ reply.body # <<>>
  /\ reply.body[1].download_url = << reply.task_id >>
  /\ reply.body[1].status = "completed"
  /\ \E other \in DOMAIN tasks : job[other].pc = "generate"

(***************************************************************************)
(* The progress written in the page loop, as a function of the page index  *)
(* and the length of the link list                                         *)
(***************************************************************************)
InitProgress ==
  /\ tasks = <<>>
  /\ writes = [id \in TaskIds |-> <<>>]
  /\ job = [id \in TaskIds |-> NoJob]
  /\ fetched = [id \in TaskIds |-> <<>>]
  /\ reply = NoReply
  /\ arg \in { [i |-> i, n |-> n] : i \in 0..(MaxPages - 1), n \in 1..MaxPages }
  /\ arg.i < arg.n
  /\ res = <<>>

ApplyProgress ==
  /\ res = <<>>
  /\ res' = << PageProgress(arg.i, arg.n) >>
  /\ UNCHANGED <<tasks, writes, job, fetched, reply, arg>>

SpecProgress == InitProgress /\ [][ApplyProgress]_vars

\* C19: the progress written at page i of a list of N links, 20 + i*60/N, is
\* an integer between 0 and 100 for every N from 1 to 100 and every i < N.
LoopProgressIsWholePercent ==
  res # <<>> =>
    /\ res[1].d = 1
    /\ Leq(Whole(0), res[1]) /\ Leq(res[1], Whole(100))

(***************************************************************************)
(* The conversion under the assumption that whatever it awaits settles     *)
(***************************************************************************)
\* the next resumption of the conversion of task id: it belongs to a call
\* that is waiting and it answers no request
Resume(id) ==
  /\ job[id].promise = "pending"
  /\ reply' = NoReply
  /\ \/ \E r \in JobSeedResponses : SeedFetched(id, r)
     \/ \E bodyRead \in BOOLEAN : SeedRead(id, bodyRead)
     \/ \E r \in JobPageResponses : PageFetched(id, r)
     \/ \E bodyRead \in BOOLEAN : PageRead(id, bodyRead)
     \/ \E generated \in BOOLEAN : Generated(id, generated)

\* a call of convertToEpub is suspended at an await; a resumption is enabled
\* exactly then, whatever the position (ResumeEnabledWhenPending)
Pending(id) == job[id].promise = "pending"

\* ENABLED <<Resume(id)>>_vars is Pending(id)
ResumeEnabledWhenPending ==
  \A id \in TaskIds : Pending(id) <=> ENABLED <<Resume(id)>>_vars

\* weak fairness of the resumptions, WF_vars(Resume(id)) written out with
\* Pending(id) for ENABLED <<Resume(id)>>_vars: a call that waits is resumed,
\* because the fetch, body read or generation it waits for settles
SpecLive ==
  /\ Init /\ [][Next]_vars
  /\ \A id \in TaskIds : ([]<>(~Pending(id)) \/ []<><<Resume(id)>>_vars)

\* C20: every submitted job reaches completed or failed, provided each fetch,
\* body read and archive generation it waits for settles; none stays pending
\* or processing forever.
EveryJobEnds ==
  \A id \in TaskIds :
    (id \in DOMAIN tasks) ~> (id \in DOMAIN tasks /\ StatusOf(id) \in {"completed", "failed"})

\* a job went through the seed and all three pages of its list and completed
RanThroughThreePages ==
  \E id \in DOMAIN tasks :
    /\ StatusOf(id) = "completed"
    /\ Len(fetched[id]) = 3
    /\ Len(writes[id]) = 11

(***************************************************************************)
(* One anchor of the seed page: its href resolved against the seed and     *)
(* tested by the validity predicate (extractLinksFromElement)              *)
(***************************************************************************)
SeedQuery ==                           \* https://docs.aws.amazon.com/guide/?lang=en
  Str("https", DocsAwsHost, <<"/", "guide", "/">>, <<"lang", "=", "en">>, <<>>)

AnchorSeeds == {SeedGuide, SeedQuery, SeedBare, SeedOther}

AnchorHosts ==
  { AwsHost, DocsAwsHost, WaAwsHost,
    <<"console", ".", "aws", ".", "amazon", ".", "com">>,
    <<"aws", ".", "amazon", ".", "com", ".", "example", ".", "org">>,
    <<"example", ".", "org">>,
    <<"amazon", ".", "com">> }

AnchorPaths ==
  { <<>>, <<"/", "guide", "/">>, <<"/", "guide", "/", "a", ".", "html">>,
    <<"/", "guide", "/", "c", ".", "PDF">>, <<"/", "api", "/", "x">>,
    <<"/", "api", "/", "latest", "/", "x">> }

AnchorSearches == { <<>>, <<"x", "=", "1">> }
AnchorHashes == { <<>>, <<"top">> }

\* absolute hrefs, and hrefs relative to the page: b.html, /guide/, #top,
\* b.html#top, ?x=1#top
AnchorHrefs ==
  { Str("https", h, p, q, f) :
      h \in AnchorHosts, p \in AnchorPaths, q \in AnchorSearches, f \in AnchorHashes }
    \cup { Str("", <<>>, p, q, f) :
             p \in { <<>>, <<"b", ".", "html">>, <<"/", "guide", "/">> },
             q \in AnchorSearches, f \in AnchorHashes }

InitAnchor ==
  /\ tasks = <<>>
  /\ writes = [id \in TaskIds |-> <<>>]
  /\ job = [id \in TaskIds |-> NoJob]
  /\ fetched = [id \in TaskIds |-> <<>>]
  /\ reply = NoReply
  /\ arg \in { [url |-> u, href |-> h] : u \in AnchorSeeds, h \in AnchorHrefs }
  /\ res = <<>>

\* the links extractLinksFromElement returns for an element that holds the
\* one anchor: none, or the absolute URL of the anchor
ApplyAnchor ==
  /\ res = <<>>
  /\ res' = << ExtractLinksFromElement(<< Anchor(arg.href, 0) >>, 0, arg.url) >>
  /\ UNCHANGED <<tasks, writes, job, fetched, reply, arg>>

SpecAnchor == InitAnchor /\ [][ApplyAnchor]_vars

(***************************************************************************)
(* Properties of the validity predicate (under SpecAnchor)                 *)
(***************************************************************************)
\* the host is aws.amazon.com or a subdomain of it
HostInFamily(hostname) ==
  hostname = AwsHost \/ EndsWith(hostname, <<".">> \o AwsHost)

\* C22: every URL isValidAwsDocumentationLink accepts has a host that is
\* aws.amazon.com or a subdomain of it; a host that only contains that text,
\* such as aws.amazon.com.example.org, is rejected.
AcceptedHostsAreAws ==
  res # <<>> =>
    \A k \in 1..Len(res[1]) : HostInFamily(ParseURL(res[1][k])[1].hostname)

\* what the anchor resolves to, and the parsed seed
AnchorURL == ResolveURL(arg.href, arg.url)
SeedURL == ParseURL(arg.url)
Accepted == res # <<>> /\ res[1] # <<>>

\* the anchor resolves to the seed page itself plus a fragment
SamePageFragment ==
  /\ AnchorURL # <<>>
  /\ AnchorURL[1].hash # <<>>
  /\ AnchorURL[1] = [SeedURL[1] EXCEPT !.hash = AnchorURL[1].hash]

\* the anchor resolves to another path and carries a fragment
OtherPageWithFragment ==
  /\ AnchorURL # <<>>
  /\ AnchorURL[1].hash # <<>>
  /\ AnchorURL[1].pathname # SeedURL[1].pathname

\* a URL that is the seed page plus a fragment is never accepted, also when
\* the seed carries a query string
SamePageFragmentRejected ==
  (res # <<>> /\ SamePageFragment) => ~Accepted

\* a URL whose path differs from the seed's is accepted with its fragment
\* whenever it is accepted without it
FragmentAloneDoesNotReject ==
  (res # <<>> /\ OtherPageWithFragment) =>
    (Accepted <=>
       IsValidAwsDocumentationLink(URLToString([AnchorURL[1] EXCEPT !.hash = <<>>])))

\* C23: the fragment rule rejects exactly the pure same-page fragment
\* references: the seed page plus a fragment is never accepted (also when the
\* seed carries a query string), and a URL with another path is not rejected
\* because of its fragment.
FragmentRuleIsSamePageOnly ==
  SamePageFragmentRejected /\ FragmentAloneDoesNotReject

(***************************************************************************)
(* The fallback scan (under SpecLinks)                                     *)
(***************************************************************************)
\* C21: whenever some TOC selector matches an element of the seed page,
\* every entry after the seed is an anchor inside the first matching
\* element, even when that element contributes no new valid link: the scan
\* of all anchors runs only when no selector matched.
FallbackOnlyWithoutToc ==
  LinksReturned =>
    LET page == arg.response.body
        el == FirstTocElement(page, 1)
        regionLinks == ExtractLinksFromElement(page, el, arg.url) IN
      el # 0 =>
        \A i \in 2..Len(res[1].links) :
          \E p \in 1..Len(regionLinks) : regionLinks[p] = res[1].links[i]

(***************************************************************************)
(* One 2xx response served once as the seed page and once as a content     *)
(* page: the two extractors on the same content type                       *)
(***************************************************************************)
ContentTypes == { <<>>, HtmlType, XmlType, XhtmlType, <<"text", "/", "xml">> }

TypedPages == { <<>>, LonelyPage, GuidePage, NavPage(<<HrefA>>, <<HrefRelB>>, <<>>) }

TypedDocuments == { NoDocument, GoodDocument, ShortDocument }

InitTyped ==
  /\ tasks = <<>>
  /\ writes = [id \in TaskIds |-> <<>>]
  /\ job = [id \in TaskIds |-> NoJob]
  /\ fetched = [id \in TaskIds |-> <<>>]
  /\ reply = NoReply
  /\ arg \in { [url |-> u, contentType |-> ct, page |-> pg, doc |-> d, bodyRead |-> b] :
                 u \in {SeedGuide, PageA}, ct \in ContentTypes, pg \in TypedPages,
                 d \in TypedDocuments, b \in BOOLEAN }
  /\ res = [seed |-> <<>>, page |-> <<>>, awaited |-> <<>>]

\* extractAwsDocumentationLinks(url) on the response
ApplyAsSeed ==
  /\ res.seed = <<>>
  /\ res' = [res EXCEPT !.seed =
               << ExtractAwsDocumentationLinks(arg.url,
                                               Response(200, arg.contentType, arg.page)) >>]
  /\ UNCHANGED <<tasks, writes, job, fetched, reply, arg>>

\* processPageWithReadability(url) on the response; awaited tells whether the
\* call reached response.text()
ApplyAsPage ==
  /\ res.page = <<>>
  /\ LET r == Response(200, arg.contentType, arg.doc) IN
       res' = [res EXCEPT !.page = << ProcessPageWithReadability(arg.url, r, arg.bodyRead) >>,
                          !.awaited = << PageAfterFetch(arg.url, r) = <<>> >>]
  /\ UNCHANGED <<tasks, writes, job, fetched, reply, arg>>

SpecTyped == InitTyped /\ [][ApplyAsSeed \/ ApplyAsPage]_vars

\* C24: a 2xx response whose content type contains 'xml' and not 'html'
\* makes processPageWithReadability return null before it reads the body,
\* while extractAwsDocumentationLinks on the same response does not fail: it
\* returns the list it returns for the same body served as HTML, which
\* starts with the seed.
XmlSkipsPageNotSeed ==
  IsXmlNotHtml(arg.contentType) =>
    /\ res.page # <<>> => (IsNull(res.page[1]) /\ res.awaited = << FALSE >>)
    /\ res.seed # <<>> =>
         /\ ~res.seed[1].threw
         /\ res.seed[1].links # <<>>
         /\ res.seed[1].links[1] = arg.url
         /\ res.seed[1] =
              ExtractAwsDocumentationLinks(arg.url, Response(200, HtmlType, arg.page))

\* an RSS response with a readable document and a navigation region: null as
\* a page although the body could be read, three links as a seed
RssNullAsPageLinksAsSeed ==
  /\ arg.contentType = XmlType
  /\ arg.doc = GoodDocument
  /\ arg.bodyRead
  /\ arg.page = GuidePage
  /\ res.page # <<>> /\ IsNull(res.page[1])
  /\ res.seed # <<>> /\ Len(res.seed[1].links) = 3

(***************************************************************************)
(* The title of an extracted article (under SpecPage)                      *)
(***************************************************************************)
\* the extractor returned an article for the document of the response
ArticleReturned == res # <<>> /\ ~res[1].threw /\ res[1].value # <<>>

\* C25: every article processPageWithReadability returns has a non-empty
\* title: the title Readability extracted when that is not empty, else the
\* trimmed text of <title> when that is not empty, else the trimmed text of
\* the first <h1> when that is not empty, else 'Untitled Page'.
TitleFollowsFallbackChain ==
  ArticleReturned =>
    LET doc == arg.response.body
        title == res[1].value[1].title
        extracted == doc.article[1].title
        pageTitle == Trim(doc.docTitle)
        heading == Trim(doc.h1) IN
      /\ title # <<>>
      /\ extracted # <<>> => title = extracted
      /\ (extracted = <<>> /\ pageTitle # <<>>) => title = pageTitle
      /\ (extracted = <<>> /\ pageTitle = <<>> /\ heading # <<>>) => title = heading
      /\ (extracted = <<>> /\ pageTitle = <<>> /\ heading = <<>>) => title = UntitledPage

\* no title from Readability, a blank <title>, a heading followed by white
\* space: the title is the heading without the white space
TitleFromTrimmedHeading ==
  /\ ArticleReturned
  /\ arg.response.body.article[1].title = <<>>
  /\ arg.response.body.docTitle = <<" ">>
  /\ arg.response.body.h1 = <<"Head", " ">>
  /\ res[1].value[1].title = <<"Head">>

(***************************************************************************)
(* The page loop and the jobs side by side (under Spec)                    *)
(***************************************************************************)
\* the status writes of the page loop so far: one per page fetch issued,
\* after the four writes that precede the loop
WritesBeforeLoop == 4
LoopWrites(id) ==
  SubSeq(writes[id], WritesBeforeLoop + 1, WritesBeforeLoop + Len(fetched[id]))

\* C26: within one job at most one page extraction is in flight, the pages
\* are fetched in link-list order, the fetch of page i+1 is issued only after
\* the extraction of page i settled, and the progress values the loop writes
\* increase strictly from 20 and stay below 80.
PagesOneAtATime ==
  \A id \in DOMAIN tasks :
    LET inFlight == Len(fetched[id]) - Len(job[id].results)
        loop == LoopWrites(id) IN
      /\ inFlight \in {0, 1}
      /\ inFlight = 1 <=> job[id].pc \in {"fetchPage", "readPage"}
      /\ Len(fetched[id]) <= Len(job[id].links)
      /\ fetched[id] = SubSeq(job[id].links, 1, Len(fetched[id]))
      /\ Len(loop) = Len(fetched[id])
      /\ \A k \in 1..Len(loop) :
           /\ loop[k].status = "processing"
           /\ Leq(Whole(20), loop[k].progress)
           /\ ~Leq(Whole(80), loop[k].progress)
           /\ k = 1 => loop[k].progress = Whole(20)
           /\ k > 1 => ~Leq(loop[k].progress, loop[k - 1].progress)

\* the third page of a list of three is being fetched; the first two
\* extractions have settled
ThirdPageInFlight ==
  \E id \in DOMAIN tasks :
    /\ job[id].pc = "fetchPage"
    /\ Len(job[id].links) = 3
    /\ Len(fetched[id]) = 3
    /\ Len(job[id].results) = 2

\* the record a finished conversion leaves, from its own locals alone
OutcomeAlone(id, j) ==
  IF j.error.isError
    THEN [status |-> "failed", progress |-> Whole(0),
          message |-> ConversionFailed(j.error),
          download_url |-> <<>>, epubBuffer |-> <<>>]
    ELSE [status |-> "completed", progress |-> Whole(100),
          message |-> Plain("Conversion completed successfully!"),
          download_url |-> << id >>,
          epubBuffer |-> << CreateEpub(IF j.title # <<>> THEN j.title ELSE DefaultTitle,
                                       ArticlesOf(j.results)) >>]

OutcomeOf(task) ==
  [status |-> task.status, progress |-> task.progress, message |-> task.message,
   download_url |-> task.download_url, epubBuffer |-> task.epubBuffer]

\* C27: with several jobs interleaved at their await points, a step of the
\* conversion of job A changes only the record of A (the record, the write
\* log and the locals of every other job B stay as they are), and each job
\* ends with the outcome its own inputs determine.
JobsDoNotInterfere ==
  \A a \in TaskIds :
    (job'[a] # job[a]) =>
      /\ \A b \in DOMAIN tasks \ {a} :
           /\ b \in DOMAIN tasks'
           /\ tasks'[b] = tasks[b]
           /\ writes'[b] = writes[b]
           /\ job'[b] = job[b]
           /\ fetched'[b] = fetched[b]
      /\ (a \in DOMAIN tasks' /\ job'[a].promise # "pending") =>
           OutcomeOf(tasks'[a]) = OutcomeAlone(a, job'[a])

JobsAreIsolated == [][JobsDoNotInterfere]_vars

\* both conversions are inside their page loops at once, each with a page
\* already settled: one awaits a fetch, the other the body of a page
BothJobsMidLoop ==
  /\ DOMAIN tasks = TaskIds
  /\ job["t1"].pc = "fetchPage" /\ Len(job["t1"].results) >= 1
  /\ job["t2"].pc = "readPage" /\ Len(job["t2"].results) >= 1
  /\ StatusOf("t1") = "processing" /\ StatusOf("t2") = "processing"

\* C28: pending is never observable by another request: when the submit
\* response is produced the new record is already processing with progress
\* 10 (the seed fetch is issued) or failed, no record of the registry is
\* pending between two handlers, and no status response reports pending.
PendingIsNeverObserved ==
  /\ \A id \in DOMAIN tasks : StatusOf(id) # "pending"
  /\ (reply.op = "convert" /\ reply.code = 200) =>
       /\ reply.task_id \in DOMAIN tasks
       /\ \/ /\ StatusOf(reply.task_id) = "processing"
             /\ tasks[reply.task_id].progress = Whole(10)
             /\ job[reply.task_id].pc = "fetchSeed"
          \/ /\ StatusOf(reply.task_id) = "failed"
             /\ job[reply.task_id].pc = "returned"
  /\ (reply.op = "status" /\ reply.code = 200) => reply.body[1].status # "pending"

\* the submit response of a job whose seed fetch is issued: its record has
\* been written three times and reads processing, 10
SubmitAnsweredAtTen ==
  /\ reply.op = "convert" /\ reply.code = 200
  /\ StatusOf(reply.task_id) = "processing"
  /\ tasks[reply.task_id].progress = Whole(10)
  /\ writes[reply.task_id][1].status = "pending"
  /\ Len(writes[reply.task_id]) = 3

\* every link of the list was tried and no page gave an article
NoPageGaveAnArticle(id) ==
  /\ job[id].pc = "returned"
  /\ job[id].links # <<>>
  /\ Len(job[id].results) = Len(job[id].links)
  /\ ArticlesOf(job[id].results) = <<>>

\* C29: a job whose link list is not empty and whose every page extraction
\* returns null or throws still ends completed with progress 100 and an EPUB
\* of zero chapters attached; the empty chapter list is no error for the
\* packager or for the orchestrator (the job fails only if the generation
\* of the archive itself fails).
NoChaptersStillCompletes ==
  \A id \in DOMAIN tasks :
    NoPageGaveAnArticle(id) =>
      IF job[id].error.isError THEN job[id].error = ZipFailed
      ELSE /\ StatusOf(id) = "completed"
           /\ tasks[id].progress = Whole(100)
           /\ tasks[id].download_url # <<>>
           /\ tasks[id].epubBuffer = << CreateEpub(tasks[id].title, <<>>) >>
           /\ ChapterFiles(tasks[id].epubBuffer[1]) = <<>>
           /\ Len(FileNamed(tasks[id].epubBuffer[1], <<"OEBPS/content.opf">>).manifest) = 2
           /\ Len(FileNamed(tasks[id].epubBuffer[1], <<"OEBPS/content.opf">>).spine) = 1

\* three pages, none of them readable, and the job completed
CompletedWithoutChapters ==
  \E id \in DOMAIN tasks :
    /\ NoPageGaveAnArticle(id)
    /\ Len(job[id].links) = 3
    /\ StatusOf(id) = "completed"
    /\ ChapterFiles(tasks[id].epubBuffer[1]) = <<>>

\* C30: in every reachable state of every job record, status is completed
\* exactly when progress is 100; a completed record has the binary and the
\* download handle attached, so a download of a completed job never answers
\* 'EPUB file not found'; a failed record has progress 0 and neither a binary
\* nor a download handle.
RecordFieldsAgree ==
  /\ \A id \in DOMAIN tasks :
       /\ StatusOf(id) = "completed" <=> tasks[id].progress = Whole(100)
       /\ StatusOf(id) = "completed" =>
            tasks[id].epubBuffer # <<>> /\ tasks[id].download_url # <<>>
       /\ StatusOf(id) = "failed" =>
            tasks[id].progress = Whole(0) /\ NothingAttached(id)
       /\ \A k \in 1..Len(writes[id]) :
            /\ writes[id][k].status = "completed" <=> writes[id][k].progress = Whole(100)
            /\ writes[id][k].status = "failed" => writes[id][k].progress = Whole(0)
  /\ reply.detail # "EPUB file not found"

\* a completed job was downloaded while the other job had failed in the
\* packager, after its progress had reached 80
DownloadedBesideFailedAtEighty ==
  /\ reply.op = "download" /\ reply.code = 200
  /\ \E id \in DOMAIN tasks :
       /\ StatusOf(id) = "failed"
       /\ job[id].error = ZipFailed
       /\ tasks[id].progress = Whole(0)

====
